---- MODULE Spec2Model ----
(***************************************************************************)
(* Model of the INK delivery-verification reconciliation subsystem of the  *)
(* Shopify merchant app: the order metafield mirror kept in Shopify, the   *)
(* proof authority's records, and the request handlers that write them     *)
(* (orders/create webhooks, enrollment, verify scan and its detached       *)
(* fallback task, the proof authority's /ink/update webhook, and the       *)
(* follow-up SMS sweep).                                                   *)
(***************************************************************************)
EXTENDS Integers, Sequences, FiniteSets, TLC

VARIABLES
    mf,        \* Shopify: order gid -> ink metafield key -> value (NULL = unset)
    now,       \* wall clock, in hours
    proofs,    \* proof authority: sequence of proof records created by /enroll
    localDb,   \* number of rows of the local Proof table (legacy enrollment)
    tasks,     \* detached fallback tasks started by /api/verify, not yet run
    deliveredAt, \* Shopify: order gid -> {hour of delivery}, {} = not delivered
    sms,       \* order gid -> number of follow-up SMS delivered
    emails,    \* order gid -> number of verification emails sent
    sweep,     \* sweep run -> its position and local variables
    last,      \* the request handled last and what it did
    events,    \* number of requests handled so far
    call       \* the call of the request handled last, or the function
               \* applied since, with its outcome

vars == <<mf, now, proofs, localDb, tasks, deliveredAt, sms, emails, sweep, last,
          events, call>>

----------------------------------------------------------------------------
(* Bounds of the model *)

MaxEvents == 3      \* requests handled in one behaviour
MaxNow == 72        \* the clock stops advancing here (hours)
MaxProofs == 2      \* proof records the authority creates in one behaviour
MaxSweeps == 2      \* runs of the follow-up sweep that may overlap
InitialDeliveryAge == 6  \* hours since order 2 was delivered, at the start

(* Granularity of the clock: one Tick is this many hours *)
TickHours == 24

(* Program constants *)
FollowupMinHours == 24
FollowupMaxHours == 72

----------------------------------------------------------------------------
(* Values *)

NULL == "null"          \* an unset metafield, an absent JSON field
EMPTY == ""             \* the empty string
NoOrder == <<>>         \* no order / an absent order_id

(* call, while the request handled last made no recorded call and no      *)
(* function has been applied since                                        *)
NoCall == [fn |-> NULL, a1 |-> NULL, a2 |-> NULL, a3 |-> NULL, result |-> NULL]

Digit == {"0", "1", "2", "3", "4", "5", "6", "7", "8", "9"}

(* order_id.replace(/\D/g, "") : a reference is a sequence of characters   *)
(* (a multi-character element stands for a run of non-digit characters).   *)
DigitsOf(ref) == SelectSeq(ref, LAMBDA c : c \in Digit)

(* The shop: the orders' numeric ids (gid://shopify/Order/<id>) and their  *)
(* display names.  The display number of order 1 is the numeric id of      *)
(* order 2.                                                                *)
OrderGids == {<<"1">>, <<"2">>}
OrderName == (<<"1">> :> <<"#", "2">>) @@ (<<"2">> :> <<"#", "7">>)

(* Order references a caller may send *)
OrderRefs == { <<"1">>, <<"gid://shopify/Order/", "2">>, <<"#", "7">>,
               <<"#", "2">>, <<"9">> }

MetaKeys == {"verification_status", "gps_verdict", "delivery_timestamp",
             "verify_url", "proof_reference", "delivery_gps", "nfc_uid",
             "followup_sent", "delivery_type", "photos_hashes",
             "ink_premium_order"}

NoMetafields == [k \in MetaKeys |-> NULL]

(* new Date().toISOString() *)
IsoNow == ToString(now)

(* metafieldsSet: last write wins per key; keys not named are untouched *)
MetafieldsSet(store, gid, fields) ==
    IF gid \in DOMAIN store
    THEN [store EXCEPT ![gid] =
            [k \in MetaKeys |-> IF k \in DOMAIN fields THEN fields[k] ELSE @[k]]]
    ELSE store

(* Outcome of one metafieldsSet call: applied, rejected with userErrors,   *)
(* or the request throws                                                   *)
SetOutcomes == {"ok", "userErrors", "throw"}

Applied(store, gid, fields, out) ==
    IF out = "ok" THEN MetafieldsSet(store, gid, fields) ELSE store

----------------------------------------------------------------------------
(* Shopify Admin GraphQL, as the handlers use it *)

(* order(id: "gid://shopify/Order/<digits>") { id } *)
OrderById(digits) == IF digits \in OrderGids THEN digits ELSE NoOrder

(* orders(first: 1, query: "name:<term>") : edges[0].node.id, or NoOrder.  *)
(* plain says whether the shop's search index matches a bare number        *)
(* against the "#NNNN" display name.                                       *)
OrderByName(term, plain) ==
    LET hits == { g \in OrderGids :
                     \/ OrderName[g] = term
                     \/ plain /\ OrderName[g] = <<"#">> \o term }
    IN IF hits = {} THEN NoOrder ELSE CHOOSE g \in hits : TRUE

(* The order lookups a handler issues for a reference, in the order it    *)
(* issues them, each with the order it returned: the direct id query,     *)
(* then orders(query: "name:<digits>") if that found nothing, then        *)
(* orders(query: "name:#<digits>") if that found nothing either           *)
ResolverQueries(order_id, plain) ==
    LET numericOrderId == DigitsOf(order_id)
        byId == [q |-> "id", hit |-> OrderById(numericOrderId)]
        byName == [q |-> "name", hit |-> OrderByName(numericOrderId, plain)]
        byHashName == [q |-> "#name",
                       hit |-> OrderByName(<<"#">> \o numericOrderId, plain)]
    IN IF byId.hit # NoOrder THEN <<byId>>
       ELSE IF byName.hit # NoOrder THEN <<byId, byName>>
       ELSE <<byId, byName, byHashName>>

(* customer { email } of an order *)
OrderHasEmail == (<<"1">> :> FALSE) @@ (<<"2">> :> TRUE)

(* customer { phone } of the orders: the customer of order 1 may have none *)
CustomerPhones == { (<<"1">> :> FALSE) @@ (<<"2">> :> TRUE),
                    (<<"1">> :> TRUE) @@ (<<"2">> :> TRUE) }

----------------------------------------------------------------------------
(* The request handled last *)

NoPayload == [order_id |-> NoOrder, status |-> NULL, delivery_gps |-> NULL,
              gps_verdict |-> NULL, proof_ref |-> NULL, timestamp |-> NULL,
              verify_url |-> NULL]

(* No answer of the proof authority *)
NoReply == [http |-> 0 - 1, body |-> EMPTY]

(* did: the calls the handler made (order lookup, metafieldsSet, email,    *)
(* authority); sig, shape: how a webhook request was classified; reply:    *)
(* what the authority answered; target: the ownerId the order resolution   *)
(* of the handler ended with                                               *)
Handled(op, order, status, out, code, req) ==
    [op |-> op, order |-> order, status |-> status, out |-> out,
     code |-> code, req |-> req,
     prev |-> IF order \in OrderGids THEN mf[order]["verification_status"]
              ELSE NULL,
     prevProof |-> IF order \in OrderGids THEN mf[order]["proof_reference"]
                   ELSE NULL,
     did |-> {}, sig |-> NULL, shape |-> NULL, reply |-> NoReply,
     target |-> NoOrder, parsed |-> FALSE, queries |-> <<>>]

----------------------------------------------------------------------------
(* POST /ink/update : the proof authority's webhook *)

(* The "RESILIENT ORDER LOOKUP": the gid the metafields are written to *)
ResolveWebhookOrder(order_id, plain) ==
    LET numericOrderId == DigitsOf(order_id)
    IN IF OrderById(numericOrderId) # NoOrder THEN numericOrderId
       ELSE IF OrderByName(numericOrderId, plain) # NoOrder
            THEN OrderByName(numericOrderId, plain)
       ELSE IF OrderByName(<<"#">> \o numericOrderId, plain) # NoOrder
            THEN OrderByName(<<"#">> \o numericOrderId, plain)
       ELSE numericOrderId

(* A handler that folds every status that is not verified into enrolled *)
WebhookMetafieldsFolded(p) ==
    [verification_status |-> IF p.status = "verified" THEN "verified"
                             ELSE "enrolled",
     gps_verdict |-> IF p.gps_verdict # NULL THEN p.gps_verdict ELSE "unknown",
     delivery_timestamp |-> IF p.timestamp # NULL THEN p.timestamp ELSE IsoNow,
     verify_url |-> IF p.verify_url # NULL THEN p.verify_url ELSE EMPTY]

(* The metafields array the webhook handler builds from the payload *)
WebhookMetafields(p) ==
    LET base == [verification_status |-> p.status,
                 gps_verdict |-> IF p.gps_verdict # NULL THEN p.gps_verdict
                                 ELSE "unknown",
                 delivery_timestamp |-> IF p.timestamp # NULL THEN p.timestamp
                                        ELSE IsoNow,
                 verify_url |-> IF p.verify_url # NULL THEN p.verify_url
                                ELSE EMPTY]
        withProof == IF p.proof_ref # NULL
                     THEN base @@ [proof_reference |-> p.proof_ref] ELSE base
    IN IF p.delivery_gps # NULL
       THEN withProof @@ [delivery_gps |-> p.delivery_gps] ELSE withProof

(* The raw request: NFS_HMAC_SECRET, the X-INK-Signature header, the body *)
Secrets == {NULL, "whsec"}

RawBodies == {"{order_id:#7,status:verified}", "{status:verified}",
              "{order_id:#7"}

(* Keys an HMAC may be computed under: the secrets above and another one *)
HmacKeys == Secrets \cup {"whsecx"}

(* crypto.createHmac("sha256", secret).update(rawBody).digest("hex"), as a *)
(* table: distinct (secret, body) pairs have distinct digests               *)
HmacSha256Hex(secret, rawBody) ==
    IF secret = "whsecx"
    THEN IF rawBody = "{order_id:#7,status:verified}" THEN "71be05"
         ELSE IF rawBody = "{status:verified}" THEN "c2d9f6"
         ELSE "0a4e7b"
    ELSE IF rawBody = "{order_id:#7,status:verified}" THEN "3fa9c1"
    ELSE IF rawBody = "{status:verified}" THEN "b07e42"
    ELSE "d5c8a0"

(* .digest("base64") of the same HMAC *)
Base64OfHex == ("3fa9c1" :> "P6nB") @@ ("b07e42" :> "sH5C")
               @@ ("d5c8a0" :> "1cig") @@ ("71be05" :> "cb4F")
               @@ ("c2d9f6" :> "wtn2") @@ ("0a4e7b" :> "Ck57")

HmacSha256Base64(secret, rawBody) == Base64OfHex[HmacSha256Hex(secret, rawBody)]

(* The header absent, empty, the digest of each body, a digest in upper    *)
(* case                                                                    *)
SignatureHeaders ==
    {NULL, EMPTY, "3FA9C1"} \cup { HmacSha256Hex("whsec", b) : b \in RawBodies }

(* The checks of the handler before it parses the body *)
SignatureCheck(secret, signature, rawBody) ==
    IF secret = NULL THEN "nosecret"
    ELSE IF signature \in {NULL, EMPTY} THEN "missing"
    ELSE IF signature # HmacSha256Hex(secret, rawBody) THEN "invalid"
    ELSE "valid"

(* Buffer.from(a).length === Buffer.from(b).length, then                   *)
(* crypto.timingSafeEqual(a, b)                                            *)
SafeEqual(a, b) == IF Len(a) # Len(b) THEN "false"
                   ELSE IF a = b THEN "true" ELSE "false"

(* NFSService.verifyWebhookSignature(payload, signature), with the value   *)
(* of NFS_HMAC_SECRET; the result is "true", "false" or "throws"           *)
verifyWebhookSignatureLengthOnly(payload, signature, secret) ==
    IF secret = NULL THEN "false"
    ELSE IF Len(signature) # Len(HmacSha256Hex(secret, payload)) THEN "false"
    ELSE "true"

verifyWebhookSignature(payload, signature, secret) ==
    IF secret = NULL THEN "false"
    ELSE SafeEqual(signature, HmacSha256Hex(secret, payload))

(* verifyShopifyHmac(rawBody, hmacHeader, secret): createHmac raises a     *)
(* TypeError when the key is undefined                                     *)
verifyShopifyHmac(rawBody, hmacHeader, secret) ==
    IF secret = NULL THEN "throws"
    ELSE SafeEqual(HmacSha256Base64(secret, rawBody), hmacHeader)

(* Signatures a caller may hand to the verifiers: the empty string (an     *)
(* absent header arrives as ""), a truncated digest, a digest in upper     *)
(* case, and every digest of the model                                     *)
HexSignatures ==
    {EMPTY, "3fa9", "3FA9C1"}
       \cup { HmacSha256Hex(k, b) : k \in HmacKeys \ {NULL}, b \in RawBodies }

Base64Signatures ==
    {EMPTY, "P6n", "p6nb"}
       \cup { HmacSha256Base64(k, b) : k \in HmacKeys \ {NULL}, b \in RawBodies }

(* JSON.parse(rawBody) and the destructuring of the payload *)
JsonParse(rawBody) ==
    IF rawBody = "{order_id:#7,status:verified}"
    THEN [ok |-> TRUE,
          payload |-> [NoPayload EXCEPT !.order_id = <<"#", "7">>,
                                        !.status = "verified"]]
    ELSE IF rawBody = "{status:verified}"
    THEN [ok |-> TRUE, payload |-> [NoPayload EXCEPT !.status = "verified"]]
    ELSE [ok |-> FALSE, payload |-> NoPayload]

(* A handler that parses the body before it looks at the signature *)
InkUpdateRejectedCodeParseFirst(sig, wellFormed, p, session) ==
    IF sig = "nosecret" THEN 500
    ELSE IF ~wellFormed THEN 500
    ELSE IF p.order_id = NoOrder \/ p.status = NULL THEN 400
    ELSE IF sig = "missing" THEN 401
    ELSE IF sig = "invalid" THEN 403
    ELSE IF ~session THEN 500
    ELSE 200

(* Requests the handler rejects before it touches Shopify *)
InkUpdateRejectedCode(sig, wellFormed, p, session) ==
    IF sig = "nosecret" THEN 500
    ELSE IF sig = "missing" THEN 401
    ELSE IF sig = "invalid" THEN 403
    ELSE IF ~wellFormed THEN 500
    ELSE IF p.order_id = NoOrder \/ p.status = NULL THEN 400
    ELSE IF ~session THEN 500
    ELSE 200

(* How the handler sees the body: JSON.parse, then the required fields *)
PayloadShape(wellFormed, p) ==
    IF ~wellFormed THEN "notjson"
    ELSE IF p.order_id = NoOrder \/ p.status = NULL THEN "incomplete"
    ELSE "json"

(* A handler whose Shopify block lets an exception of the metafieldsSet   *)
(* call reach the outer catch                                              *)
InkUpdateCodeUncaught(sig, wellFormed, p, session, out, mail) ==
    IF InkUpdateRejectedCode(sig, wellFormed, p, session) # 200
    THEN InkUpdateRejectedCode(sig, wellFormed, p, session)
    ELSE IF out \in {"throw", "lookupThrow"} THEN 500
    ELSE 200

(* The status of the answer: past the early returns, the catch blocks of   *)
(* the Shopify block and of the email block swallow every failure          *)
InkUpdateCode(sig, wellFormed, p, session, out, mail) ==
    InkUpdateRejectedCode(sig, wellFormed, p, session)

(* status === "verified" && verify_url, reached only when no call of the   *)
(* Shopify block has thrown                                                *)
EmailAttempted(p, out) ==
    /\ out \notin {"throw", "lookupThrow"}
    /\ p.status = "verified" /\ p.verify_url # NULL

(* JSON.parse(rawBody) lies behind the three signature returns: the raw    *)
(* body is parsed only when the signature check passed                    *)
WebhookParsesUnsigned(sig) == sig # "nosecret"

WebhookParses(sig) == sig = "valid"

InkUpdate(sig, wellFormed, p, session, plain, out, mail) ==
    LET code == InkUpdateCode(sig, wellFormed, p, session, out, mail)
        orderGid == ResolveWebhookOrder(p.order_id, plain)
        wantsEmail == /\ EmailAttempted(p, out)
                      /\ orderGid \in OrderGids /\ OrderHasEmail[orderGid]
                      /\ mail = "sent"
        did == {"lookup"}
                  \cup (IF out = "lookupThrow" THEN {} ELSE {"write"})
                  \cup (IF EmailAttempted(p, out) THEN {"email"} ELSE {})
                  \cup (IF EmailAttempted(p, out) /\ mail = "failed"
                        THEN {"emailThrew"} ELSE {})
        rejected == InkUpdateRejectedCode(sig, wellFormed, p, session) # 200
    IN /\ events < MaxEvents
       /\ events' = events + 1
       /\ IF rejected
          THEN /\ UNCHANGED <<mf, emails>>
               /\ last' = [Handled("InkUpdate", NoOrder, NULL, "rejected",
                                   code, NoPayload)
                             EXCEPT !.sig = sig,
                                    !.shape = PayloadShape(wellFormed, p),
                                    !.parsed = WebhookParses(sig)]
          ELSE /\ mf' = Applied(mf, orderGid, WebhookMetafields(p), out)
               /\ emails' = IF wantsEmail
                            THEN [emails EXCEPT ![orderGid] = @ + 1] ELSE emails
               /\ last' = [Handled("InkUpdate",
                                   IF orderGid \in OrderGids THEN orderGid
                                   ELSE NoOrder,
                                   p.status, out, code, p)
                             EXCEPT !.sig = sig, !.shape = "json", !.did = did,
                                    !.parsed = WebhookParses(sig),
                                    !.queries = IF out = "lookupThrow" THEN <<>>
                                                ELSE ResolverQueries(p.order_id,
                                                                     plain),
                                    !.target = IF out = "lookupThrow"
                                               THEN NoOrder ELSE orderGid]
       /\ call' = NoCall
       /\ UNCHANGED <<now, proofs, localDb, tasks, deliveredAt, sms, sweep>>

----------------------------------------------------------------------------
(* POST /webhooks/orders/create : Shopify's orders/create webhook *)

(* String(payload.id) : the numeric id of the order, as a string *)
IdString(g) == g[1]

(* webhooks.orders.create.ts : premium shipping line => initial metafields *)
OrdersCreateMetafields ==
    [verification_status |-> "pending", delivery_type |-> "premium",
     proof_reference |-> EMPTY, nfc_uid |-> EMPTY]

(* verifyManualWebhook, verifyShopifyHmac as seen by the handlers *)
HmacCheck(hmacOk) == IF hmacOk THEN "valid" ELSE "invalid"

OrdersCreate(g, hmacOk, premium, session, out) ==
    LET code == IF ~hmacOk THEN 401
                ELSE IF ~premium THEN 200
                ELSE IF ~session THEN 400
                ELSE IF out = "throw" THEN 500
                ELSE 200
        writes == hmacOk /\ premium /\ session
    IN /\ events < MaxEvents
       /\ events' = events + 1
       /\ mf' = IF writes THEN Applied(mf, g, OrdersCreateMetafields, out)
                ELSE mf
       /\ last' = [Handled("OrdersCreate", g, "pending",
                           IF writes THEN out ELSE "rejected", code, NoPayload)
                     EXCEPT !.sig = HmacCheck(hmacOk),
                            !.parsed = WebhookParses(HmacCheck(hmacOk))]
       /\ call' = NoCall
       /\ UNCHANGED <<now, proofs, localDb, tasks, deliveredAt, sms, emails,
                      sweep>>

(* webhooks.orders_create.ts : INK line item => initial metafields *)
OrdersCreateInkMetafields(g) ==
    [verification_status |-> "pending", proof_reference |-> IdString(g),
     photos_hashes |-> "[]", nfc_uid |-> EMPTY, ink_premium_order |-> "true"]

OrdersCreateInk(g, hmacOk, isInkOrder, out) ==
    LET code == IF ~hmacOk THEN 401
                ELSE IF ~isInkOrder THEN 200
                ELSE IF out # "ok" THEN 500
                ELSE 200
        writes == hmacOk /\ isInkOrder
    IN /\ events < MaxEvents
       /\ events' = events + 1
       /\ mf' = IF writes THEN Applied(mf, g, OrdersCreateInkMetafields(g), out)
                ELSE mf
       /\ last' = [Handled("OrdersCreateInk", g, "pending",
                           IF writes THEN out ELSE "rejected", code, NoPayload)
                     EXCEPT !.sig = HmacCheck(hmacOk),
                            !.parsed = WebhookParses(HmacCheck(hmacOk))]
       /\ call' = NoCall
       /\ UNCHANGED <<now, proofs, localDb, tasks, deliveredAt, sms, emails,
                      sweep>>

----------------------------------------------------------------------------
(* Identity derivation: serial -> uid -> token *)

HexDigit == Digit \cup {"a", "b", "c", "d", "e", "f"}
UpperHex == {"A", "B", "C", "D", "E", "F"}
ToLower == ("A" :> "a") @@ ("B" :> "b") @@ ("C" :> "c") @@ ("D" :> "d")
           @@ ("E" :> "e") @@ ("F" :> "f")

(* The serial numbers a tag reader may report, as character sequences *)
SerialChars == ("ef:8b" :> <<"e", "f", ":", "8", "b">>)
               @@ ("EF8B" :> <<"E", "F", "8", "B">>)
               @@ ("12-g1" :> <<"1", "2", "-", "g", "1">>)
               @@ ("ef8b" :> <<"e", "f", "8", "b">>)
               @@ ("Ef-8C" :> <<"E", "f", "-", "8", "C">>)
               @@ ("12:11" :> <<"1", "2", ":", "1", "1">>)
               @@ ("1211" :> <<"1", "2", "1", "1">>)
               @@ ("12-11" :> <<"1", "2", "-", "1", "1">>)
Serials == DOMAIN SerialChars

(* serialNumber.replace(/[^0-9a-fA-F]/gi, '').toLowerCase() *)
CleanSerialKeepingCase(chars) ==
    SelectSeq(chars, LAMBDA c : c \in HexDigit \cup UpperHex)

CleanSerial(chars) ==
    LET kept == SelectSeq(chars, LAMBDA c : c \in HexDigit \cup UpperHex)
    IN [i \in 1..Len(kept) |->
          IF kept[i] \in UpperHex THEN ToLower[kept[i]] ELSE kept[i]]

(* sha256(cleaned).substring(0, 16), as a table over the strings of the    *)
(* model (distinct inputs have distinct digests)                           *)
Sha256Prefix16 == (<<"e", "f", "8", "b">> :> "uid_ef8b")
                  @@ (<<"E", "F", "8", "B">> :> "uid_EF8B")
                  @@ (<<"E", "f", "8", "C">> :> "uid_Ef8C")
                  @@ (<<"1", "2", "1">> :> "uid_121")
                  @@ (<<"e", "f", "8", "c">> :> "uid_ef8c")
                  @@ (<<"1", "2", "1", "1">> :> "uid_1211")

serialNumberToUID(serial) == Sha256Prefix16[CleanSerial(SerialChars[serial])]

(* "token_" + sha256(uid) *)
Sha256OfUid == ("uid_ef8b" :> "ef8b") @@ ("uid_121" :> "121")
               @@ ("uid_ef8c" :> "ef8c") @@ ("uid_1211" :> "1211")
               @@ ("uid_EF8B" :> "EF8B") @@ ("uid_Ef8C" :> "Ef8C")

TokenOfHash == ("ef8b" :> "token_ef8b") @@ ("121" :> "token_121")
               @@ ("ef8c" :> "token_ef8c") @@ ("1211" :> "token_1211")
               @@ ("EF8B" :> "token_EF8B") @@ ("Ef8C" :> "token_Ef8C")

uidToToken(uid) == TokenOfHash[Sha256OfUid[uid]]

serialNumberToToken(serial) ==
    [uid |-> serialNumberToUID(serial),
     token |-> uidToToken(serialNumberToUID(serial))]

----------------------------------------------------------------------------
(* The proof authority (external) *)

(* proof ids the authority hands out *)
ProofId(n) == ToString(100 + n)

(* POST /enroll with a 2xx answer creates a proof record; every call does. *)
AuthorityEnroll(records, order_id, nfc_uid, nfc_token) ==
    Append(records, [proof_id |-> ProofId(Len(records) + 1),
                     order_id |-> order_id, nfc_uid |-> nfc_uid,
                     nfc_token |-> nfc_token])

----------------------------------------------------------------------------
(* POST /api/enroll : warehouse enrollment *)

(* Order lookup of the enrollment handler.  The direct query selects      *)
(* customer { phone } only, so an order found by id carries no id field:   *)
(* validOrderGid = orderData.data.order.id is then undefined.  The name    *)
(* queries select id.                                                      *)
EnrollLookup(order_id, plain) ==
    LET numericOrderId == DigitsOf(order_id)
    IN IF OrderById(numericOrderId) # NoOrder
       THEN [found |-> TRUE, order |-> numericOrderId, id |-> NoOrder]
       ELSE IF OrderByName(numericOrderId, plain) # NoOrder
       THEN [found |-> TRUE, order |-> OrderByName(numericOrderId, plain),
             id |-> OrderByName(numericOrderId, plain)]
       ELSE IF OrderByName(<<"#">> \o numericOrderId, plain) # NoOrder
       THEN [found |-> TRUE,
             order |-> OrderByName(<<"#">> \o numericOrderId, plain),
             id |-> OrderByName(<<"#">> \o numericOrderId, plain)]
       ELSE [found |-> FALSE, order |-> NoOrder, id |-> NoOrder]

EnrollMetafields(proof_id, serial) ==
    [proof_reference |-> proof_id, verification_status |-> "enrolled",
     nfc_uid |-> serial]

(* session, complete: the early returns; lookup: the Shopify order query;  *)
(* nfs: the authority's answer; out: the metafieldsSet outcome             *)
Enroll(order_id, serial, session, complete, plain, lookup, nfs, out) ==
    LET orderData == EnrollLookup(order_id, plain)
        validOrderGid == orderData.id
        id == serialNumberToToken(serial)
        code == IF ~session THEN 500
                ELSE IF ~complete THEN 400
                ELSE IF lookup = "throw" THEN 500
                ELSE IF ~orderData.found THEN 404
                ELSE IF nfs # "ok" THEN 500
                ELSE 200
        calls == session /\ complete /\ lookup = "ok" /\ orderData.found
        records == AuthorityEnroll(proofs, order_id, serial, id.token)
    IN /\ events < MaxEvents
       /\ calls /\ nfs = "ok" => Len(proofs) < MaxProofs
       /\ events' = events + 1
       /\ IF code = 200
          THEN /\ proofs' = records
               /\ mf' = Applied(mf, validOrderGid,
                                EnrollMetafields(ProofId(Len(records)), serial),
                                out)
          ELSE UNCHANGED <<proofs, mf>>
       /\ last' = [Handled("Enroll",
                           IF calls THEN orderData.order ELSE NoOrder,
                           "enrolled",
                           IF code = 200 THEN out
                           ELSE IF calls THEN "nfsFailed" ELSE "rejected",
                           code,
                           IF session /\ complete /\ lookup = "ok"
                           THEN [NoPayload EXCEPT !.order_id = order_id]
                           ELSE NoPayload)
                     EXCEPT !.target = IF calls THEN validOrderGid
                                       ELSE NoOrder,
                            !.queries = IF session /\ complete /\ lookup = "ok"
                                        THEN ResolverQueries(order_id, plain)
                                        ELSE <<>>,
                            !.did =
                        (IF calls THEN {"enroll"} ELSE {})
                           \cup (IF calls /\ nfs # "ok" THEN {"enrollFailed"}
                                 ELSE {})
                           \cup (IF code = 200 THEN {"write"} ELSE {})]
       /\ call' = NoCall
       /\ UNCHANGED <<now, localDb, tasks, deliveredAt, sms, emails, sweep>>

(* The enrollment handler that keeps a local Proof row as a backup *)
LocalProofId(n) == ToString(200 + n)

EnrollLocalMetafields(proof_id, nfsOk, uid) ==
    [proof_reference |-> proof_id,
     verification_status |-> IF nfsOk THEN "enrolled"
                             ELSE "enrolled_local_only",
     nfc_uid |-> uid]

EnrollLocalBackup(order_id, serial, session, complete, db, nfs, out) ==
    LET orderGid == DigitsOf(order_id)
        id == serialNumberToToken(serial)
        code == IF ~session THEN 500
                ELSE IF ~complete THEN 400
                ELSE IF db # "ok" THEN 500
                ELSE 200
        records == AuthorityEnroll(proofs, order_id, id.uid, id.token)
        localProofId == LocalProofId(localDb + 1)
    IN /\ events < MaxEvents
       /\ code = 200 => localDb < MaxProofs
       /\ code = 200 /\ nfs = "ok" => Len(proofs) < MaxProofs
       /\ events' = events + 1
       /\ IF code = 200
          THEN /\ localDb' = localDb + 1
               /\ proofs' = IF nfs = "ok" THEN records ELSE proofs
               /\ mf' = Applied(mf, orderGid,
                                EnrollLocalMetafields(
                                    IF nfs = "ok" THEN ProofId(Len(records))
                                    ELSE localProofId,
                                    nfs = "ok", id.uid),
                                out)
          ELSE UNCHANGED <<localDb, proofs, mf>>
       /\ last' = [Handled("EnrollLocalBackup",
                           IF code = 200 /\ orderGid \in OrderGids
                           THEN orderGid ELSE NoOrder,
                           IF nfs = "ok" THEN "enrolled"
                           ELSE "enrolled_local_only",
                           IF code # 200 THEN "rejected" ELSE out,
                           code, NoPayload)
                     EXCEPT !.did =
                        IF code # 200 THEN {}
                        ELSE {"enroll", "write"}
                                \cup (IF nfs # "ok" THEN {"enrollFailed"}
                                      ELSE {})]
       /\ call' = NoCall
       /\ UNCHANGED <<now, tasks, deliveredAt, sms, emails, sweep>>

----------------------------------------------------------------------------
(* POST /api/verify : the customer's scan *)

(* What the authority may answer to POST /verify for a token: 404 when no  *)
(* proof record holds the token; otherwise 2xx with the record's proof_id  *)
(* and the authority's verdict, or a failure.  http 0 is a transport error *)
AuthorityVerdicts == {"verified", "flagged"}
AuthorityGpsVerdicts == {NULL, "pass"}
VerifyErrorBodies == {EMPTY, "Tag not enrolled", "Phone verification required"}

NoReplyData == [proof_id |-> NULL, verification_status |-> NULL,
                gps_verdict |-> NULL]

AuthorityVerifyReplies(records, token) ==
    LET held == { i \in 1..Len(records) : records[i].nfc_token = token }
    IN IF held = {}
       THEN { [http |-> 404, body |-> b, data |-> NoReplyData] :
                 b \in VerifyErrorBodies }
       ELSE { [http |-> 200, body |-> EMPTY,
               data |-> [proof_id |-> records[i].proof_id,
                         verification_status |-> v, gps_verdict |-> gv]] :
                 i \in held, v \in AuthorityVerdicts,
                 gv \in AuthorityGpsVerdicts }
            \cup { [http |-> h, body |-> b, data |-> NoReplyData] :
                      h \in {0, 403, 500}, b \in VerifyErrorBodies }

(* NFSService.verify: the phrases of the Error message thrown for a reply  *)
VerifyErrorMessage(reply) ==
    IF reply.http = 0 THEN {"fetch failed"}
    ELSE IF reply.http = 403 THEN {"Phone verification required", reply.body}
    ELSE IF reply.http = 404 THEN {"Tag not enrolled", reply.body}
    ELSE {"NFS Verification failed", reply.body}

(* A catch block without the "Tag not enrolled" branch *)
VerifyErrorCodeGeneric(message) ==
    IF "Phone verification required" \in message THEN 403 ELSE 500

(* The catch block of the verify action: the status code by the message *)
VerifyErrorCode(message) ==
    IF "Phone verification required" \in message THEN 403
    ELSE IF "Tag not enrolled" \in message THEN 404
    ELSE 500

(* The body of a 2xx answer is JSON text: a value in some layout.         *)
(* response.json() keeps the value; JSON.stringify writes it compactly.   *)
JsonLayouts == {"compact", "indented"}

JsonText(layout, value) == [layout |-> layout, value |-> value]

ResponseJson(text) == text.value

JsonStringify(value) == JsonText("compact", value)

(* The payload of NFSService.verify: the token computed from the serial *)
VerifyPayloadUid(serial) == [nfc_token |-> serialNumberToToken(serial).uid]

VerifyPayload(serial) == [nfc_token |-> serialNumberToToken(serial).token]

(* new Response(JSON.stringify(alanData)) *)
VerifyResponseStatusOnly(alanData) ==
    JsonStringify([verification_status |-> alanData.verification_status])

VerifyResponse(alanData) == JsonStringify(alanData)

Verify(serial, complete, reply, layout) ==
    LET token == VerifyPayload(serial).nfc_token
        alanData == ResponseJson(JsonText(layout, reply.data))
        code == IF ~complete THEN 400
                ELSE IF reply.http = 200 THEN 200
                ELSE VerifyErrorCode(VerifyErrorMessage(reply))
    IN /\ events < MaxEvents
       /\ reply \in AuthorityVerifyReplies(proofs, token)
       /\ events' = events + 1
       /\ tasks' = IF code = 200
                   THEN tasks \cup { [kind |-> k, data |-> alanData] :
                                        k \in {"metafields", "email"} }
                   ELSE tasks
       /\ call' = IF complete
                  THEN [fn |-> "NFSService.verify", a1 |-> serial,
                        a2 |-> token,
                        a3 |-> [http |-> reply.http,
                                text |-> JsonText(layout, reply.data)],
                        result |-> [code |-> code,
                                    body |-> IF code = 200
                                             THEN VerifyResponse(alanData)
                                             ELSE JsonStringify(NoReplyData)]]
                  ELSE NoCall
       /\ last' = [Handled("Verify", NoOrder,
                           IF code = 200 THEN reply.data.verification_status
                           ELSE NULL,
                           IF code = 200 THEN "ok" ELSE "rejected", code,
                           NoPayload)
                     EXCEPT !.did = IF complete THEN {"verify"} ELSE {},
                            !.reply = IF complete
                                      THEN [http |-> reply.http,
                                            body |-> reply.body]
                                      ELSE NoReply]
       /\ UNCHANGED <<mf, now, proofs, localDb, deliveredAt, sms, emails, sweep>>

(* orders(first: 1, query: "metafield.ink.proof_reference:<proof_id>") *)
OrdersByProof(store, proof_id) ==
    { g \in OrderGids : store[g]["proof_reference"] = proof_id }

VerifyFallbackMetafields(alanData) ==
    [verification_status |-> "verified",
     gps_verdict |-> IF alanData.gps_verdict # NULL THEN alanData.gps_verdict
                     ELSE "unknown",
     delivery_timestamp |-> IsoNow]

(* The detached "fallback" task of the verify action *)
VerifyFallback(t, session, out) ==
    /\ t \in tasks /\ t.kind = "metafields"
    /\ tasks' = tasks \ {t}
    /\ IF session /\ OrdersByProof(mf, t.data.proof_id) # {}
       THEN \E g \in OrdersByProof(mf, t.data.proof_id) :
               /\ mf' = Applied(mf, g, VerifyFallbackMetafields(t.data), out)
               /\ last' = Handled("VerifyFallback", g,
                                  t.data.verification_status, out, 0,
                                  NoPayload)
       ELSE /\ mf' = mf
            /\ last' = Handled("VerifyFallback", NoOrder,
                               t.data.verification_status, "rejected", 0,
                               NoPayload)
    /\ UNCHANGED <<now, proofs, localDb, deliveredAt, sms, emails, sweep,
                   events,
                   call>>

(* The detached "Return Passport" email task of the verify action:         *)
(* retrieveProof(proof_id).order_id -> order by name -> email              *)
VerifyEmailTask(t, session, plain, mail) ==
    /\ t \in tasks /\ t.kind = "email"
    /\ tasks' = tasks \ {t}
    /\ LET held == { i \in 1..Len(proofs) :
                        proofs[i].proof_id = t.data.proof_id }
           proof == proofs[CHOOSE i \in held : TRUE]
           digits == DigitsOf(proof.order_id)
           numericOrderId == SubSeq(digits, 1,
                                    IF Len(digits) < 4 THEN Len(digits) ELSE 4)
           byName == OrderByName(numericOrderId, plain)
           order == IF byName # NoOrder THEN byName
                    ELSE OrderByName(<<"#">> \o numericOrderId, plain)
       IN emails' = IF /\ session /\ held # {} /\ order # NoOrder
                       /\ OrderHasEmail[order] /\ mail = "sent"
                    THEN [emails EXCEPT ![order] = @ + 1]
                    ELSE emails
    /\ UNCHANGED <<mf, now, proofs, localDb, deliveredAt, sms, sweep, last,
                   events,
                   call>>

----------------------------------------------------------------------------
(* Time and the carrier *)

Tick ==
    /\ now + TickHours <= MaxNow
    /\ now' = now + TickHours
    /\ UNCHANGED <<mf, proofs, localDb, tasks, deliveredAt, sms, emails, sweep,
                   last, events,
                   call>>

(* Shopify records the delivery of a fulfillment *)
Deliver(g) ==
    /\ deliveredAt[g] = {}
    /\ deliveredAt' = [deliveredAt EXCEPT ![g] = {now}]
    /\ UNCHANGED <<mf, now, proofs, localDb, tasks, sms, emails, sweep, last,
                   events,
                   call>>

----------------------------------------------------------------------------
(* GET /api/jobs/check-followups : the follow-up SMS sweep *)

SweepRuns == 1..MaxSweeps

(* The orders of the query result, in the order the loop visits them *)
SweepOrderList == <<(<<"1">>), (<<"2">>)>>

(* What the sweep's query returns for one order *)
SweepRead(g, phones) ==
    [verification_status |-> mf[g]["verification_status"],
     followup_sent |-> mf[g]["followup_sent"],
     deliveredAt |-> deliveredAt[g],
     phone |-> phones[g],
     reminders |-> sms[g]]

NoRead == [verification_status |-> NULL, followup_sent |-> NULL,
           deliveredAt |-> {}, phone |-> FALSE, reminders |-> 0]

IdleSweep == [pc |-> "idle", test |-> FALSE, target |-> NULL, start |-> 0,
              snap |-> [g \in OrderGids |-> NoRead], todo |-> <<>>,
              res |-> [g \in OrderGids |-> "none"], processed |-> 0]

(* order.id as a string, and orderId.includes(targetOrderId) *)
GidString(g) == <<"gid:", "shopify", "Order">> \o g
Includes(str, part) == \E i \in 1..Len(str) : str[i] = part

SweepTargets == {NULL, "2", "Order"}

(* hoursSinceDelivery, from the run's own "now" *)
HoursSinceDelivery(run, g) ==
    run.start - (CHOOSE h \in run.snap[g].deliveredAt : TRUE)

(* A condition that forgets isEnrolled *)
ShouldSendUnenrolled(run, g) ==
    LET hours == HoursSinceDelivery(run, g)
    IN /\ IF run.test
          THEN run.target = NULL \/ Includes(GidString(g), run.target)
          ELSE hours >= FollowupMinHours /\ hours < FollowupMaxHours
       /\ run.snap[g].verification_status # "verified"
       /\ run.snap[g].followup_sent # "true"

(* shouldProcess && !isVerified && !followupSent && isEnrolled *)
ShouldSend(run, g) ==
    LET isVerified == run.snap[g].verification_status = "verified"
        followupSent == run.snap[g].followup_sent = "true"
        isEnrolled == run.snap[g].verification_status = "enrolled"
        hours == HoursSinceDelivery(run, g)
        shouldProcess ==
            IF run.test
            THEN run.target = NULL \/ Includes(GidString(g), run.target)
            ELSE hours >= FollowupMinHours /\ hours < FollowupMaxHours
    IN shouldProcess /\ ~isVerified /\ ~followupSent /\ isEnrolled

(* The loader starts: it reads the orders and the clock once *)
SweepStart(r, test, target, phones) ==
    /\ events < MaxEvents
    /\ sweep[r].pc \in {"idle", "done", "failed"}
    /\ events' = events + 1
    /\ sweep' = [sweep EXCEPT ![r] =
                   [pc |-> "loop", test |-> test, target |-> target,
                    start |-> now, snap |-> [g \in OrderGids |-> SweepRead(g, phones)],
                    todo |-> SweepOrderList,
                    res |-> [g \in OrderGids |-> "none"], processed |-> 0]]
    /\ UNCHANGED <<mf, now, proofs, localDb, tasks, deliveredAt, sms, emails,
                   last,
                   call>>

(* A loop whose processedCount++ is not under if (success) *)
SweepOrderCountingFailures(r, smsOut) ==
    LET run == sweep[r]
        g == Head(run.todo)
        verdict == IF run.snap[g].deliveredAt = {} THEN "undelivered"
                   ELSE IF ~ShouldSend(run, g) THEN "skipped"
                   ELSE IF ~run.snap[g].phone THEN "nophone"
                   ELSE IF smsOut = "sent" THEN "sent"
                   ELSE "smsfailed"
    IN /\ run.pc = "loop" /\ run.todo # <<>>
       /\ sms' = IF verdict = "sent" THEN [sms EXCEPT ![g] = @ + 1] ELSE sms
       /\ sweep' = [sweep EXCEPT ![r] =
                      IF verdict = "sent"
                      THEN [run EXCEPT !.pc = "mark", !.res[g] = "sent"]
                      ELSE [run EXCEPT !.todo = Tail(run.todo),
                                       !.res[g] = verdict,
                                       !.processed =
                                          IF verdict = "smsfailed" THEN @ + 1
                                          ELSE @]]
       /\ UNCHANGED <<mf, now, proofs, localDb, tasks, deliveredAt, emails,
                      last, events,
                      call>>

(* One iteration of the loop up to and including the SMS send *)
SweepOrder(r, smsOut) ==
    LET run == sweep[r]
        g == Head(run.todo)
        verdict == IF run.snap[g].deliveredAt = {} THEN "undelivered"
                   ELSE IF ~ShouldSend(run, g) THEN "skipped"
                   ELSE IF ~run.snap[g].phone THEN "nophone"
                   ELSE IF smsOut = "sent" THEN "sent"
                   ELSE "smsfailed"
    IN /\ run.pc = "loop" /\ run.todo # <<>>
       /\ sms' = IF verdict = "sent" THEN [sms EXCEPT ![g] = @ + 1] ELSE sms
       /\ sweep' = [sweep EXCEPT ![r] =
                      IF verdict = "sent"
                      THEN [run EXCEPT !.pc = "mark", !.res[g] = "sent"]
                      ELSE [run EXCEPT !.todo = Tail(run.todo),
                                       !.res[g] = verdict]]
       /\ UNCHANGED <<mf, now, proofs, localDb, tasks, deliveredAt, emails,
                      last, events,
                      call>>

(* A loop that counts the order as processed and writes no metafield *)
SweepMarkUnwritten(r, out) ==
    LET run == sweep[r]
        g == Head(run.todo)
    IN /\ run.pc = "mark"
       /\ sweep' = [sweep EXCEPT ![r] =
                      IF out = "throw"
                      THEN [run EXCEPT !.pc = "failed", !.res[g] = "markThrew"]
                      ELSE [run EXCEPT !.pc = "loop", !.todo = Tail(run.todo),
                                       !.res[g] = IF out = "ok" THEN "marked"
                                                  ELSE "markRejected",
                                       !.processed = @ + 1]]
       /\ UNCHANGED <<mf, now, proofs, localDb, tasks, deliveredAt, sms, emails,
                      last, events,
                      call>>

(* After a successful send: metafieldsSet followup_sent = "true" *)
SweepMark(r, out) ==
    LET run == sweep[r]
        g == Head(run.todo)
    IN /\ run.pc = "mark"
       /\ mf' = Applied(mf, g, [followup_sent |-> "true"], out)
       /\ sweep' = [sweep EXCEPT ![r] =
                      IF out = "throw"
                      THEN [run EXCEPT !.pc = "failed", !.res[g] = "markThrew"]
                      ELSE [run EXCEPT !.pc = "loop", !.todo = Tail(run.todo),
                                       !.res[g] = IF out = "ok" THEN "marked"
                                                  ELSE "markRejected",
                                       !.processed = @ + 1]]
       /\ UNCHANGED <<now, proofs, localDb, tasks, deliveredAt, sms, emails,
                      last, events,
                      call>>

(* The loop is over: the loader answers *)
SweepFinish(r) ==
    /\ sweep[r].pc = "loop" /\ sweep[r].todo = <<>>
    /\ sweep' = [sweep EXCEPT ![r].pc = "done"]
    /\ UNCHANGED <<mf, now, proofs, localDb, tasks, deliveredAt, sms, emails,
                   last, events,
                   call>>

----------------------------------------------------------------------------
(* The system *)

NoRequest == [op |-> "none", order |-> NoOrder, status |-> NULL,
              out |-> "none", code |-> 0, req |-> NoPayload, prev |-> NULL,
              prevProof |-> NULL, did |-> {}, sig |-> NULL, shape |-> NULL,
              reply |-> NoReply, target |-> NoOrder, parsed |-> FALSE,
              queries |-> <<>>]

Init ==
    /\ mf = [g \in OrderGids |-> NoMetafields]
    /\ now = 0
    /\ proofs = <<>>
    /\ localDb = 0
    /\ tasks = {}
    /\ deliveredAt = (<<"1">> :> {}) @@ (<<"2">> :> {0 - InitialDeliveryAge})
    /\ sms = [g \in OrderGids |-> 0]
    /\ emails = [g \in OrderGids |-> 0]
    /\ sweep = [r \in SweepRuns |-> IdleSweep]
    /\ last = NoRequest
    /\ events = 0
    /\ call = NoCall

(* The signature verifiers and the identity derivation, applied to the    *)
(* inputs of the model                                                    *)
ApplyVerifyWebhookSignature ==
    \E payload \in RawBodies, signature \in HexSignatures, secret \in HmacKeys :
       /\ call' = [fn |-> "verifyWebhookSignature", a1 |-> payload,
                   a2 |-> signature, a3 |-> secret,
                   result |-> verifyWebhookSignature(payload, signature, secret)]
       /\ UNCHANGED <<mf, now, proofs, localDb, tasks, deliveredAt, sms, emails,
                      sweep, last, events>>

ApplyVerifyShopifyHmac ==
    \E rawBody \in RawBodies, hmacHeader \in Base64Signatures,
       secret \in HmacKeys :
       /\ call' = [fn |-> "verifyShopifyHmac", a1 |-> rawBody,
                   a2 |-> hmacHeader, a3 |-> secret,
                   result |-> verifyShopifyHmac(rawBody, hmacHeader, secret)]
       /\ UNCHANGED <<mf, now, proofs, localDb, tasks, deliveredAt, sms, emails,
                      sweep, last, events>>

ApplySerialNumberToToken ==
    \E serial \in Serials :
       /\ call' = [fn |-> "serialNumberToToken", a1 |-> serial, a2 |-> NULL,
                   a3 |-> NULL, result |-> serialNumberToToken(serial)]
       /\ UNCHANGED <<mf, now, proofs, localDb, tasks, deliveredAt, sms, emails,
                      sweep, last, events>>

NextFunctions ==
    \/ ApplyVerifyWebhookSignature
    \/ ApplyVerifyShopifyHmac
    \/ ApplySerialNumberToToken

SpecFunctions == Init /\ [][NextFunctions]_vars

(* The upstream calls of the request handlers, one await at a time: the   *)
(* handler sends the request with fetch and waits until the promise       *)
(* settles. Enrollment asks Shopify and the authority, the verify scan    *)
(* the authority, the webhook Shopify.                                    *)
UpstreamCalls == {<<"Enroll", "shopify">>, <<"Enroll", "authority">>,
                  <<"Verify", "authority">>, <<"InkUpdate", "shopify">>}

(* The RequestInit of every fetch holds method, headers and body: no      *)
(* signal, no timer                                                       *)
FetchTimer(upstream) == "none"

FetchSend ==
    \E c \in UpstreamCalls :
       /\ events < MaxEvents
       /\ call.result # "pending"
       /\ call' = [fn |-> "fetch", a1 |-> c[1], a2 |-> c[2],
                   a3 |-> FetchTimer(c[2]), result |-> "pending"]
       /\ UNCHANGED <<mf, now, proofs, localDb, tasks, deliveredAt, sms, emails,
                      sweep, last, events>>

(* The upstream answers, or the connection fails: the promise settles *)
FetchSettle ==
    \E outcome \in {"replied", "failed"} :
       /\ call.fn = "fetch" /\ call.result = "pending"
       /\ call' = [call EXCEPT !.result = outcome]
       /\ UNCHANGED <<mf, now, proofs, localDb, tasks, deliveredAt, sms, emails,
                      sweep, last, events>>

(* The handler resumes after the await and answers the request *)
HandlerReturn ==
    /\ call.fn = "fetch" /\ call.result \in {"replied", "failed"}
    /\ call' = [call EXCEPT !.result = "returned"]
    /\ events' = events + 1
    /\ last' = Handled(call.a1, NoOrder, NULL,
                       IF call.result = "failed" THEN "throw" ELSE "ok",
                       IF call.result = "failed" THEN 500 ELSE 200, NoPayload)
    /\ UNCHANGED <<mf, now, proofs, localDb, tasks, deliveredAt, sms, emails,
                   sweep>>

NextUpstream == FetchSend \/ FetchSettle \/ HandlerReturn \/ Tick

(* The handler resumes once the promise has settled; nothing obliges the  *)
(* upstream to answer                                                     *)
SpecUpstream ==
    Init /\ [][NextUpstream]_vars /\ WF_vars(HandlerReturn)

(* The webhook payloads of the authority *)
WebhookStatuses == {"enrolled", "verified", "flagged", "expired"}

PayloadsOf(refs, statuses, optional) ==
    { [order_id |-> ref, status |-> st, delivery_gps |-> o.delivery_gps,
       gps_verdict |-> o.gps_verdict, proof_ref |-> o.proof_ref,
       timestamp |-> o.timestamp, verify_url |-> o.verify_url] :
         ref \in refs, st \in statuses, o \in optional }

AllOptional ==
    [delivery_gps : {NULL, "{lat,lng}"}, gps_verdict : {NULL, "pass"},
     proof_ref : {NULL, "101"}, timestamp : {NULL, "T1"},
     verify_url : {NULL, "https://in.ink/verify/101"}]

FullOrBare ==
    { o \in AllOptional :
         \/ \A k \in DOMAIN o : o[k] = NULL
         \/ \A k \in DOMAIN o : o[k] # NULL }

ShopifyOutcomes == SetOutcomes \cup {"lookupThrow"}
MailOutcomes == {"sent", "failed"}

(* References to order 2 (by gid, by display name), and to no order *)
RefsOfOrder2 == { <<"gid://shopify/Order/", "2">>, <<"#", "7">>, <<"9">> }

BareOptional == { o \in AllOptional : \A k \in DOMAIN o : o[k] = NULL }

(* Requests the webhook handler answers without processing them *)
InkUpdateRejected ==
    \/ \E secret \in Secrets, signature \in SignatureHeaders,
          rawBody \in RawBodies :
          /\ \/ SignatureCheck(secret, signature, rawBody) # "valid"
             \/ PayloadShape(JsonParse(rawBody).ok,
                             JsonParse(rawBody).payload) # "json"
          /\ InkUpdate(SignatureCheck(secret, signature, rawBody),
                       JsonParse(rawBody).ok, JsonParse(rawBody).payload,
                       TRUE, TRUE, "ok", "sent")
    \/ \E p \in PayloadsOf({NoOrder, <<"#", "7">>}, {NULL, "verified"},
                           BareOptional) :
          /\ p.order_id = NoOrder \/ p.status = NULL
          /\ InkUpdate("valid", TRUE, p, TRUE, TRUE, "ok", "sent")
    \/ \E p \in PayloadsOf({<<"#", "7">>}, {"verified"}, BareOptional) :
          InkUpdate("valid", TRUE, p, FALSE, TRUE, "ok", "sent")

InkUpdateProcessed ==
    \E p \in PayloadsOf(RefsOfOrder2, {"enrolled", "verified", "flagged"},
                        FullOrBare),
       out \in ShopifyOutcomes, mail \in MailOutcomes :
          /\ mail = "failed" => p.verify_url # NULL /\ out = "ok"
          /\ InkUpdate("valid", TRUE, p, TRUE, TRUE, out, mail)

OrdersCreateRequest ==
    \E hmacOk \in BOOLEAN, premium \in BOOLEAN, session \in BOOLEAN,
       out \in SetOutcomes :
          /\ ~(hmacOk /\ premium /\ session) => out = "ok"
          /\ OrdersCreate(<<"2">>, hmacOk, premium, session, out)

OrdersCreateInkRequest ==
    \E hmacOk \in BOOLEAN, isInkOrder \in BOOLEAN, out \in SetOutcomes :
          /\ ~(hmacOk /\ isInkOrder) => out = "ok"
          /\ OrdersCreateInk(<<"2">>, hmacOk, isInkOrder, out)

(* Enrollment requests that end at an early return *)
EnrollRejected ==
    \E session \in BOOLEAN, complete \in BOOLEAN, lookup \in {"ok", "throw"} :
          /\ ~(session /\ complete /\ lookup = "ok")
          /\ Enroll(<<"#", "7">>, "ef:8b", session, complete, TRUE, lookup,
                    "ok", "ok")

EnrollProcessed ==
    \E order_id \in RefsOfOrder2, plain \in BOOLEAN, nfs \in {"ok", "fail"},
       out \in SetOutcomes :
          /\ nfs = "fail" => out = "ok"
          /\ Enroll(order_id, "ef:8b", TRUE, TRUE, plain, "ok", nfs, out)

EnrollLocalBackupRejected ==
    \E session \in BOOLEAN, complete \in BOOLEAN, db \in {"ok", "fail"} :
          /\ ~(session /\ complete /\ db = "ok")
          /\ EnrollLocalBackup(<<"#", "7">>, "ef:8b", session, complete, db,
                               "ok", "ok")

EnrollLocalBackupProcessed ==
    \E order_id \in RefsOfOrder2, nfs \in {"ok", "fail"}, out \in SetOutcomes :
          EnrollLocalBackup(order_id, "ef:8b", TRUE, TRUE, "ok", nfs, out)

VerifyRequest ==
    \E serial \in {"EF8B", "12-g1"}, complete \in BOOLEAN :
       \E reply \in AuthorityVerifyReplies(proofs,
                                           VerifyPayload(serial).nfc_token),
          layout \in JsonLayouts :
          /\ reply.http # 200 => layout = "compact"
          /\ Verify(serial, complete, reply, layout)

VerifyTasks ==
    \E t \in tasks :
       \/ \E session \in BOOLEAN, out \in SetOutcomes :
             VerifyFallback(t, session, out)
       \/ \E session \in BOOLEAN, plain \in BOOLEAN, mail \in MailOutcomes :
             VerifyEmailTask(t, session, plain, mail)

Sweep(runs) ==
    \E r \in runs :
       \/ \E test \in BOOLEAN, target \in SweepTargets,
             phones \in CustomerPhones :
                SweepStart(r, test, target, phones)
       \/ \E smsOut \in {"sent", "failed"} : SweepOrder(r, smsOut)
       \/ \E out \in SetOutcomes : SweepMark(r, out)
       \/ SweepFinish(r)

Next ==
    \/ OrdersCreateRequest
    \/ OrdersCreateInkRequest
    \/ EnrollRejected
    \/ EnrollProcessed
    \/ EnrollLocalBackupRejected
    \/ EnrollLocalBackupProcessed
    \/ VerifyRequest
    \/ VerifyTasks
    \/ InkUpdateRejected
    \/ InkUpdateProcessed

(* The lifecycle of an order: creation, enrollment, scan, webhook *)
Spec == Init /\ [][Next]_vars

(* The webhook over the statuses of an order *)
InkUpdateStatuses ==
    \E p \in PayloadsOf({<<"#", "7">>}, WebhookStatuses, FullOrBare),
       out \in SetOutcomes :
          InkUpdate("valid", TRUE, p, TRUE, TRUE, out, "sent")

NextWebhook ==
    \/ OrdersCreateRequest
    \/ InkUpdateRejected
    \/ InkUpdateStatuses
    \/ Tick

SpecWebhook == Init /\ [][NextWebhook]_vars

(* Redelivery of a webhook, with every subset of the optional fields *)
InkUpdateAnyPayload ==
    \E p \in PayloadsOf({<<"#", "7">>}, {"verified"}, AllOptional),
       out \in {"ok", "userErrors"} :
          InkUpdate("valid", TRUE, p, TRUE, TRUE, out, "sent")

NextReplay == InkUpdateAnyPayload \/ Tick

SpecReplay == Init /\ [][NextReplay]_vars

(* The follow-up sweep, over orders the webhook has moved *)
InkUpdateStatusOnly ==
    \E p \in PayloadsOf({<<"1">>, <<"#", "7">>}, {"enrolled", "verified"},
                        BareOptional) :
          InkUpdate("valid", TRUE, p, TRUE, TRUE, "ok", "sent")

NextSweep ==
    \/ InkUpdateStatusOnly
    \/ Sweep({1})
    \/ Tick
    \/ Deliver(<<"1">>)

SpecSweep == Init /\ [][NextSweep]_vars

(* Scheduled runs of the sweep that may overlap: each request runs the    *)
(* loader on its own, and the awaits of one run interleave with the other *)
AllPhones == [g \in OrderGids |-> TRUE]

SweepScheduled(runs) ==
    \E r \in runs :
       \/ SweepStart(r, FALSE, NULL, AllPhones)
       \/ \E smsOut \in {"sent", "failed"} : SweepOrder(r, smsOut)
       \/ \E out \in SetOutcomes : SweepMark(r, out)
       \/ SweepFinish(r)

NextOverlap ==
    \/ InkUpdateStatusOnly
    \/ SweepScheduled(SweepRuns)
    \/ Tick

SpecOverlap == Init /\ [][NextOverlap]_vars

(* The references to an order: its GID, its numeric id, its display name *)
RefsOf(g) == { <<"gid://shopify/Order/">> \o g, g, OrderName[g] }

(* The order resolution of the webhook and of the enrollment handler, over *)
(* every reference to every order of the shop                              *)
ResolveByWebhook ==
    \E g \in OrderGids, plain \in BOOLEAN :
       \E p \in PayloadsOf(RefsOf(g), {"enrolled", "verified"}, BareOptional) :
          InkUpdate("valid", TRUE, p, TRUE, plain, "ok", "sent")

ResolveByEnroll ==
    \E g \in OrderGids, plain \in BOOLEAN :
       \E order_id \in RefsOf(g) :
          Enroll(order_id, "ef:8b", TRUE, TRUE, plain, "ok", "ok", "ok")

NextResolve == ResolveByWebhook \/ ResolveByEnroll

SpecResolve == Init /\ [][NextResolve]_vars

----------------------------------------------------------------------------
(* Properties *)

StatusOf(g) == mf[g]["verification_status"]

(* The request handled last was a webhook the handler processed for an     *)
(* order of the shop, and Shopify applied its metafieldsSet                *)
WebhookApplied ==
    /\ last.op = "InkUpdate" /\ last.code = 200 /\ last.out = "ok"
    /\ last.order \in OrderGids

(* C1: a processed webhook that carries the stale status enrolled leaves   *)
(* an order whose verification_status was verified at verified.            *)
C1_StaleEnrolledKeepsVerified ==
    (WebhookApplied /\ last.status = "enrolled" /\ last.prev = "verified")
        => StatusOf(last.order) = "verified"

(* C2: delivering the same well-formed payload a second time leaves the    *)
(* order's ink metafields as they were after the first delivery (both      *)
(* deliveries processed, their metafieldsSet applied).                     *)
C2_ReplayChangesNothing ==
    [][ ( /\ WebhookApplied
          /\ events' = events + 1
          /\ last'.op = "InkUpdate" /\ last'.code = 200 /\ last'.out = "ok"
          /\ last'.req = last.req )
        => mf' = mf ]_vars

(* C3: for an enrolled order, of the verify-scan fallback write and the    *)
(* verified webhook, the one that runs second changes no metafield.        *)
C3_SecondPathChangesNothing ==
    [][ ( /\ last.out = "ok" /\ last.order \in OrderGids
          /\ last.prev = "enrolled"
          /\ last'.out = "ok" /\ last'.order = last.order
          /\ last' # last
          /\ \/ /\ last.op = "VerifyFallback"
                /\ last'.op = "InkUpdate" /\ last'.status = "verified"
             \/ /\ last.op = "InkUpdate" /\ last.status = "verified"
                /\ last'.op = "VerifyFallback" )
        => mf' = mf ]_vars

(* C4: an enrollment request or an orders/create webhook handled for an    *)
(* order that is enrolled or verified does not move its                    *)
(* verification_status back (verified to enrolled or pending, enrolled to  *)
(* pending).                                                               *)
C4_EnrollAndCreateNeverRegress ==
    ( /\ last.op \in {"Enroll", "EnrollLocalBackup", "OrdersCreate",
                      "OrdersCreateInk"}
      /\ last.order \in OrderGids )
        => /\ last.prev = "verified"
              => StatusOf(last.order) \notin {"enrolled", "pending"}
           /\ last.prev = "enrolled" => StatusOf(last.order) # "pending"

(* C5: a processed webhook with status flagged, once its metafieldsSet is  *)
(* applied, leaves the order's verification_status at flagged, whatever    *)
(* the status was before.                                                  *)
C5_FlaggedOverrides ==
    (WebhookApplied /\ last.status = "flagged")
        => StatusOf(last.order) = "flagged"

C5_Witness ==
    /\ WebhookApplied /\ last.status = "flagged" /\ last.prev = "verified"
    /\ StatusOf(last.order) = "flagged"

(* C6: every order's verification_status is pending, enrolled, verified    *)
(* or flagged, or unset.                                                   *)
C6_StatusInLattice ==
    \A g \in OrderGids :
       StatusOf(g) \in {NULL, "pending", "enrolled", "verified", "flagged"}

(* C7: the verification_status the verify handler's metafield write stores *)
(* is the verification_status of the authority's 2xx response.             *)
C7_StoresAuthorityVerdict ==
    (last.op = "VerifyFallback" /\ last.out = "ok" /\ last.order \in OrderGids)
        => StatusOf(last.order) = last.status

(* The proof ids the authority hands out *)
AuthorityProofIds == { ProofId(n) : n \in 1..MaxProofs }

(* C8: an enrollment request for an order that already holds the           *)
(* proof_reference of a successful enrollment does not call the            *)
(* authority's enroll again.                                               *)
C8_NoSecondEnrollCall ==
    ( /\ last.op \in {"Enroll", "EnrollLocalBackup"}
      /\ last.order \in OrderGids
      /\ last.prevProof \in AuthorityProofIds )
        => last.out = "rejected"

----------------------------------------------------------------------------
(* Properties of the follow-up sweep *)

(* The sweep run, and what it did with an order *)
TheRun == sweep[1]

Reminded(run, g) ==
    run.res[g] \in {"sent", "marked", "markRejected", "markThrew"}

InWindow(run, g) ==
    /\ run.snap[g].deliveredAt # {}
    /\ HoursSinceDelivery(run, g) >= FollowupMinHours
    /\ HoursSinceDelivery(run, g) < FollowupMaxHours

C10_OnlyInsideTheWindow ==
    \A g \in OrderGids :
       Reminded(TheRun, g)
          => /\ TheRun.snap[g].verification_status = "enrolled"
             /\ TheRun.snap[g].followup_sent # "true"
             /\ TheRun.snap[g].deliveredAt # {}
             /\ HoursSinceDelivery(TheRun, g) >= FollowupMinHours
             /\ HoursSinceDelivery(TheRun, g) <= FollowupMaxHours

(* C10, amended: a reminder goes out only for an order the run read as     *)
(* enrolled, not marked followup_sent, delivered, with a customer phone,   *)
(* and either delivered at least 24 and less than 72 hours before, or, in  *)
(* a run with test_mode=true, matching the run's target_order_id if any.   *)
C10_OnlyEligibleOrTestMode ==
    \A g \in OrderGids :
       Reminded(TheRun, g)
          => /\ TheRun.snap[g].verification_status = "enrolled"
             /\ TheRun.snap[g].followup_sent # "true"
             /\ TheRun.snap[g].deliveredAt # {}
             /\ TheRun.snap[g].phone
             /\ IF TheRun.test
                THEN \/ TheRun.target = NULL
                     \/ Includes(GidString(g), TheRun.target)
                ELSE InWindow(TheRun, g)

(* A scheduled run reminds an order delivered exactly 24 hours before *)
C10_Witness ==
    LET g == <<"1">>
    IN /\ ~TheRun.test /\ Reminded(TheRun, g)
       /\ HoursSinceDelivery(TheRun, g) = FollowupMinHours
       /\ sms[g] = 1

----------------------------------------------------------------------------
(* Properties of the answers *)

(* The step handles a request *)
Handles(op) == events' = events + 1 /\ last'.op = op

(* The step leaves the orders and the notifications as they were *)
NothingDone ==
    /\ mf' = mf /\ emails' = emails /\ sms' = sms /\ tasks' = tasks
    /\ proofs' = proofs /\ localDb' = localDb

C12_MalformedAnswered400 ==
    ( /\ last.op = "InkUpdate" /\ last.sig = "valid"
      /\ last.shape \in {"notjson", "incomplete"} )
        => last.code = 400 /\ last.did = {}

(* C13: a correctly signed, well-formed webhook whose order_id resolves to *)
(* no order of the shop (by id, by name:<digits>, by name:#<digits>) is    *)
(* answered with a code other than the success code 200, and no            *)
(* metafieldsSet call is issued for it.                                    *)
C13_UnresolvedRejected ==
    ( /\ last.op = "InkUpdate" /\ last.sig = "valid" /\ last.req # NoPayload
      /\ last.out # "lookupThrow" /\ last.order = NoOrder )
        => last.code # 200 /\ "write" \notin last.did

(* C14: a correctly signed, well-formed webhook that finds the Shopify     *)
(* session is answered 200, whether the metafieldsSet call is applied,     *)
(* returns userErrors or throws, whether the order lookup throws, and      *)
(* whether the email is sent or its sending fails.                         *)
C14_ProcessedAcknowledged ==
    ( /\ last.op = "InkUpdate" /\ last.sig = "valid" /\ last.shape = "json"
      /\ "lookup" \in last.did )
        => last.code = 200

(* The metafieldsSet call of a verified webhook threw, and the answer was  *)
(* still 200                                                               *)
C14_Witness ==
    /\ last.op = "InkUpdate" /\ last.sig = "valid" /\ last.status = "verified"
    /\ last.out = "throw" /\ last.order = <<"2">>
    /\ last.code = 200

(* C15: for a processed webhook with status verified and a verify_url, the *)
(* verification email is attempted whatever the outcome of the             *)
(* metafieldsSet call: applied, userErrors, or an exception.               *)
C15_EmailDespiteFailedWrite ==
    ( /\ last.op = "InkUpdate" /\ "write" \in last.did
      /\ last.status = "verified" /\ last.req.verify_url # NULL
      /\ last.order \in OrderGids )
        => "email" \in last.did

(* C16: when the authority's verify call fails, the verify endpoint        *)
(* answers 403 exactly when the authority answered 403, 404 exactly when   *)
(* it answered 404, and 500 for every other non-2xx answer and for a       *)
(* transport failure, whatever the error body.                             *)
C16_ErrorsMappedByStatus ==
    ( /\ last.op = "Verify" /\ "verify" \in last.did
      /\ last.reply.http # 200 )
        => /\ last.code = 403 <=> last.reply.http = 403
           /\ last.code = 404 <=> last.reply.http = 404
           /\ last.reply.http \notin {403, 404} => last.code = 500

C18_EnrollWritesTheOrder ==
    ( /\ last.op = "Enroll" /\ last.code = 200 /\ last.out = "ok"
      /\ last.order \in OrderGids )
        => /\ StatusOf(last.order) = "enrolled"
           /\ mf[last.order]["proof_reference"] = ProofId(Len(proofs))
           /\ mf[last.order]["nfc_uid"] # NULL

(* C19: when the authority's enroll call fails, the enrollment request is  *)
(* answered with an error and no ink metafield of any order changes.       *)
C19_FailedEnrollWritesNothing ==
    [][ ( /\ events' = events + 1
          /\ last'.op \in {"Enroll", "EnrollLocalBackup"}
          /\ "enrollFailed" \in last'.did )
          => last'.code # 200 /\ mf' = mf ]_vars

(* C20: for an order of the shop, the order resolution of the webhook      *)
(* handler and of the enrollment handler ends with that order's GID,       *)
(* whether the request names the order by its GID, by its numeric id or    *)
(* by its #NNNN display name.                                              *)
C20_ResolverEquivalence ==
    \A g \in OrderGids :
       ( /\ last.op \in {"InkUpdate", "Enroll"} /\ last.code \in {200, 404}
         /\ last.req.order_id \in RefsOf(g) )
           => last.target = g

----------------------------------------------------------------------------
(* C21: in every webhook handler the raw body is parsed as JSON only      *)
(* after the signature over it was verified: a request whose body was     *)
(* parsed carried a valid signature, and a request without a valid        *)
(* signature never has a field of its body on record.                     *)
C21_ParsedOnlyWhenSigned ==
    /\ last.parsed => last.sig = "valid"
    /\ last.sig \in {"nosecret", "missing", "invalid"}
          => ~last.parsed /\ last.req = NoPayload /\ last.did = {}

(* A signed but incomplete body was parsed, and answered 400 *)
C21_Witness ==
    /\ last.op = "InkUpdate" /\ last.parsed /\ last.sig = "valid"
    /\ last.shape = "incomplete" /\ last.code = 400

----------------------------------------------------------------------------
(* The verifiers, and the digest each compares the signature with *)
Verifiers == {"verifyWebhookSignature", "verifyShopifyHmac"}

DigestOf(fn, body, secret) ==
    IF fn = "verifyShopifyHmac" THEN HmacSha256Base64(secret, body)
    ELSE HmacSha256Hex(secret, body)

(* C22: the signature verifiers fail closed and never throw: every        *)
(* application returns a boolean, and it returns false when the header is *)
(* absent (it arrives as the empty string), when the secret is unset, or  *)
(* when the signature's length differs from the digest's.                 *)
C22_VerifiersFailClosed ==
    call.fn \in Verifiers =>
       /\ call.result \in {"true", "false"}
       /\ ( \/ call.a2 = EMPTY
            \/ call.a3 = NULL
            \/ Len(call.a2) # Len(DigestOf(call.fn, call.a1, call.a3)) )
             => call.result = "false"

(* C23: signature round trip: under a set secret, a verifier accepts a    *)
(* signature if and only if it is the HMAC of the exact raw body under    *)
(* that secret; the HMAC under another secret, the HMAC of another body   *)
(* and the empty signature are refused.                                   *)
C23_SignatureRoundTrip ==
    (call.fn \in Verifiers /\ call.a3 # NULL) =>
       /\ call.result = "true" <=> call.a2 = DigestOf(call.fn, call.a1, call.a3)
       /\ call.a2 = EMPTY => call.result = "false"
       /\ \A other \in HmacKeys \ {NULL, call.a3} :
             call.a2 = DigestOf(call.fn, call.a1, other) => call.result = "false"

(* The digest under the right secret was accepted *)
C23_Witness ==
    /\ call.fn = "verifyWebhookSignature" /\ call.a3 = "whsec"
    /\ call.a2 = HmacSha256Hex("whsec", call.a1) /\ call.result = "true"

(* C24: serialNumberToToken depends only on the normalized serial: every  *)
(* serial with the same hex characters, after removing the other          *)
(* characters and lower-casing, has the uid and token of the serial just  *)
(* converted, and converting that serial again gives the same result.     *)
C24_SameNormalFormSameIdentity ==
    LET Lower(c) == IF c \in DOMAIN ToLower THEN ToLower[c] ELSE c
        Hex(chars) == SelectSeq(chars, LAMBDA c : Lower(c) \in HexDigit)
        Normal(chars) == [i \in 1..Len(Hex(chars)) |-> Lower(Hex(chars)[i])]
    IN call.fn = "serialNumberToToken" =>
          /\ call.result = serialNumberToToken(call.a1)
          /\ \A other \in Serials :
                Normal(SerialChars[other]) = Normal(SerialChars[call.a1])
                   => /\ serialNumberToToken(other).uid = call.result.uid
                      /\ serialNumberToToken(other).token = call.result.token

(* A serial with separators and capitals was converted, and it shares its *)
(* identity with a differently written serial                             *)
C24_Witness ==
    /\ call.fn = "serialNumberToToken" /\ call.a1 = "EF8B"
    /\ call.result = serialNumberToToken("ef:8b")

----------------------------------------------------------------------------
(* C25: every request handler eventually returns a response even when an  *)
(* upstream call never replies: a handler that is waiting for the proof   *)
(* authority or for Shopify is eventually past that call, because the     *)
(* call carries a timer whose expiry ends the wait.                       *)
C25_HandlerEventuallyReturns ==
    (call.fn = "fetch" /\ call.result = "pending")
       ~> (call.fn = "fetch" /\ call.result # "pending")

----------------------------------------------------------------------------
----------------------------------------------------------------------------
(* C28: enrollment and verification agree on the credential: for a proof  *)
(* record enrolled through the enrollment endpoint with serial s, a       *)
(* verify scan with any serial that has the same hex characters as s,     *)
(* other characters removed and lower-cased, presents to the authority    *)
(* exactly the nfc_token sent at enrollment.                              *)
C28_ScanPresentsEnrolledToken ==
    LET Lower(c) == IF c \in DOMAIN ToLower THEN ToLower[c] ELSE c
        Hex(chars) == SelectSeq(chars, LAMBDA c : Lower(c) \in HexDigit)
        Normal(serial) == [i \in 1..Len(Hex(SerialChars[serial])) |->
                              Lower(Hex(SerialChars[serial])[i])]
    IN call.fn = "NFSService.verify" =>
          \A i \in 1..Len(proofs) :
             ( /\ proofs[i].nfc_uid \in Serials
               /\ Normal(proofs[i].nfc_uid) = Normal(call.a1) )
                => call.a2 = proofs[i].nfc_token

(* A package enrolled as "ef:8b" was scanned as "EF8B", and the authority *)
(* recognised the token                                                   *)
C28_Witness ==
    /\ call.fn = "NFSService.verify" /\ call.a1 = "EF8B" /\ call.a3.http = 200
    /\ \E i \in 1..Len(proofs) :
          proofs[i].nfc_uid = "ef:8b" /\ proofs[i].nfc_token = call.a2

----------------------------------------------------------------------------
(* C27: order resolution tries its strategies in a fixed order and stops  *)
(* at the first hit: the direct id lookup, then the name:<digits> search, *)
(* then the name:#<digits> search; every strategy queried before the last *)
(* one found nothing, no strategy is queried after one that found an      *)
(* order, and the order that strategy found is the owner of the           *)
(* handler's metafield write.                                             *)
C27_FirstHitIsWritten ==
    (last.op \in {"InkUpdate", "Enroll"} /\ last.queries # <<>>) =>
       LET qs == last.queries
           n == Len(qs)
       IN /\ n <= 3
          /\ \A k \in 1..n : qs[k].q = <<"id", "name", "#name">>[k]
          /\ \A k \in 1..(n - 1) : qs[k].hit = NoOrder
          /\ n < 3 => qs[n].hit # NoOrder
          /\ (qs[n].hit # NoOrder /\ "write" \in last.did)
                => last.target = qs[n].hit

----------------------------------------------------------------------------
(* C29: under any interleaving of two overlapping runs of the sweep over  *)
(* the same eligible order, at most one reminder SMS is sent for it: two  *)
(* scheduled runs that both read the order before a reminder of either    *)
(* went out do not both send one.                                         *)
C29_OverlappingRunsSendOnce ==
    \A g \in OrderGids, r1 \in SweepRuns, r2 \in SweepRuns :
       ( /\ r1 # r2
         /\ sweep[r1].pc # "idle" /\ sweep[r2].pc # "idle"
         /\ sweep[r1].snap[g].reminders = sweep[r2].snap[g].reminders )
          => ~(Reminded(sweep[r1], g) /\ Reminded(sweep[r2], g))

----------------------------------------------------------------------------
(* C30: when the sweep's SMS send for an order fails, or the order has    *)
(* no customer phone, the sweep writes nothing for that order: no         *)
(* metafield changes, followup_sent stays unset, no reminder is counted   *)
(* as sent, the order is not counted as processed, and with the           *)
(* followup_sent it has now the order is selected again by a run that     *)
(* reads the rest as this run did.                                        *)
C30_FailedSendWritesNothing ==
    [][ \A g \in OrderGids :
          ( /\ TheRun.res[g] = "none"
            /\ TheRun'.res[g] \in {"nophone", "smsfailed"} )
             => /\ mf' = mf /\ sms' = sms
                /\ mf'[g]["followup_sent"] = NULL
                /\ TheRun'.processed = TheRun.processed
                /\ TheRun'.pc = "loop"
                /\ ShouldSend([TheRun' EXCEPT !.snap[g].followup_sent =
                                                mf'[g]["followup_sent"]], g) ]_vars

(* A scheduled run is over whose SMS to the customer of order 2 failed:   *)
(* nothing was written, nothing counted                                   *)
C30_Witness ==
    /\ TheRun.pc = "done" /\ ~TheRun.test
    /\ TheRun.res[<<"2">>] = "smsfailed"
    /\ TheRun.processed = 0
    /\ mf[<<"2">>]["followup_sent"] = NULL /\ sms[<<"2">>] = 0

====
